---- MODULE Spec2Model ----
(***************************************************************************)
(* A model of the OpenHue MCP server (src/src/index.ts): the call-tool     *)
(* request handler, its zod schemas, the command strings it builds, the    *)
(* subprocess it launches through child_process.exec and the response or   *)
(* error it produces.                                                      *)
(*                                                                         *)
(* Text is modelled as a sequence of one-character strings, so that the    *)
(* template literals of the source are concatenations and a shell's        *)
(* tokenisation of a built command can be computed.                        *)
(***************************************************************************)
EXTENDS Integers, Sequences, FiniteSets, TLC

VARIABLES pc, req, params, validated, command, launched, outcome, response

vars == <<pc, req, params, validated, command, launched, outcome, response>>

-----------------------------------------------------------------------------
(* Text *)

Chars(s) == [i \in 1..Len(s) |-> SubSeq(s, i, i)]

RECURSIVE SeqsOfLen(_, _)
SeqsOfLen(A, n) ==
  IF n = 0 THEN {<<>>}
  ELSE {Append(s, c) : s \in SeqsOfLen(A, n - 1), c \in A}

SeqsUpTo(A, n) == UNION {SeqsOfLen(A, k) : k \in 0..n}

\* sub occurs in s starting at index i
OccursAt(sub, s, i) ==
  /\ i >= 1
  /\ i + Len(sub) - 1 <= Len(s)
  /\ \A k \in 1..Len(sub) : s[i + k - 1] = sub[k]

Contains(s, sub) == \E i \in 1..(Len(s) + 1) : OccursAt(sub, s, i)

CountOcc(sub, s) == Cardinality({i \in 1..Len(s) : OccursAt(sub, s, i)})

StartsWith(s, pre) == OccursAt(pre, s, 1)

EndsWith(s, suf) == OccursAt(suf, s, Len(s) - Len(suf) + 1)

RECURSIVE Join(_, _)
\* Array.prototype.join: the texts of parts separated by sep
Join(parts, sep) ==
  IF Len(parts) = 0 THEN <<>>
  ELSE IF Len(parts) = 1 THEN parts[1]
  ELSE parts[1] \o sep \o Join(Tail(parts), sep)

Digit == <<"0", "1", "2", "3", "4", "5", "6", "7", "8", "9">>

RECURSIVE NatStr(_)
NatStr(n) == IF n < 10 THEN <<Digit[n + 1]>>
             ELSE NatStr(n \div 10) \o <<Digit[(n % 10) + 1]>>

\* Number.prototype.toString of an integral number
NumStr(n) == IF n < 0 THEN <<"-">> \o NatStr(0 - n) ELSE NatStr(n)

-----------------------------------------------------------------------------
(* JavaScript values carried by a request's arguments *)

Undef == [t |-> "undefined", s |-> <<>>, n |-> 0]
Str(s) == [t |-> "string", s |-> s, n |-> 0]
Num(n) == [t |-> "number", s |-> <<>>, n |-> n]
Obj == [t |-> "object", s |-> <<>>, n |-> 0]

\* ToBoolean: what `if (v)` tests
Truthy(v) ==
  CASE v.t = "undefined" -> FALSE
    [] v.t = "string" -> v.s # <<>>
    [] v.t = "number" -> v.n # 0
    [] OTHER -> TRUE

\* ToString: what a template literal `${v}` inserts
ToStr(v) ==
  CASE v.t = "string" -> v.s
    [] v.t = "number" -> NumStr(v.n)
    [] v.t = "undefined" -> Chars("undefined")
    [] OTHER -> Chars("[object Object]")

-----------------------------------------------------------------------------
(* The zod schemas and zod's parse *)

FieldNames == {"lightId", "roomId", "room", "target", "action", "brightness",
               "color", "temperature", "name", "mode"}

StringField(n, opt) ==
  [name |-> n, kind |-> "string", optional |-> opt, values |-> <<>>,
   min |-> 0, max |-> 0]

EnumField(n, vals, opt) ==
  [name |-> n, kind |-> "enum", optional |-> opt, values |-> vals,
   min |-> 0, max |-> 0]

NumberField(n, lo, hi, opt) ==
  [name |-> n, kind |-> "number", optional |-> opt, values |-> <<>>,
   min |-> lo, max |-> hi]

LightActionSchema ==
  << StringField("target", FALSE),
     EnumField("action", <<"on", "off">>, FALSE),
     NumberField("brightness", 0, 100, TRUE),
     StringField("color", TRUE),
     NumberField("temperature", 153, 500, TRUE) >>

RoomActionSchema ==
  << StringField("target", FALSE),
     EnumField("action", <<"on", "off">>, FALSE),
     NumberField("brightness", 0, 100, TRUE),
     StringField("color", TRUE),
     NumberField("temperature", 153, 500, TRUE) >>

SceneActionSchema ==
  << StringField("name", FALSE),
     StringField("room", TRUE),
     EnumField("mode", <<"active", "dynamic", "static">>, TRUE) >>

\* zod's util.joinValues: 'on' | 'off'
EnumList(vals) ==
  Join([i \in 1..Len(vals) |-> <<"'">> \o Chars(vals[i]) \o <<"'">>],
       Chars(" | "))

\* number bounds taken as exclusive: gt/lt in place of min/max
ZodFieldIssuesExclusive(f, v) ==
  IF v.t = "undefined"
  THEN IF f.optional THEN <<>> ELSE <<Chars("Required")>>
  ELSE CASE f.kind = "string" ->
              IF v.t = "string" THEN <<>>
              ELSE <<Chars("Expected string, received ") \o Chars(v.t)>>
         [] f.kind = "enum" ->
              IF v.t # "string"
              THEN <<Chars("Expected ") \o EnumList(f.values)
                     \o Chars(", received ") \o Chars(v.t)>>
              ELSE IF \E i \in 1..Len(f.values) : Chars(f.values[i]) = v.s
              THEN <<>>
              ELSE <<Chars("Invalid enum value. Expected ")
                     \o EnumList(f.values) \o Chars(", received '")
                     \o v.s \o <<"'">> >>
         [] f.kind = "number" ->
              IF v.t # "number"
              THEN <<Chars("Expected number, received ") \o Chars(v.t)>>
              ELSE IF v.n <= f.min
              THEN <<Chars("Number must be greater than or equal to ")
                     \o NumStr(f.min)>>
              ELSE IF v.n >= f.max
              THEN <<Chars("Number must be less than or equal to ")
                     \o NumStr(f.max)>>
              ELSE <<>>

\* zod's messages for one field: at most one issue arises per field here
ZodFieldIssues(f, v) ==
  IF v.t = "undefined"
  THEN IF f.optional THEN <<>> ELSE <<Chars("Required")>>
  ELSE CASE f.kind = "string" ->
              IF v.t = "string" THEN <<>>
              ELSE <<Chars("Expected string, received ") \o Chars(v.t)>>
         [] f.kind = "enum" ->
              IF v.t # "string"
              THEN <<Chars("Expected ") \o EnumList(f.values)
                     \o Chars(", received ") \o Chars(v.t)>>
              ELSE IF \E i \in 1..Len(f.values) : Chars(f.values[i]) = v.s
              THEN <<>>
              ELSE <<Chars("Invalid enum value. Expected ")
                     \o EnumList(f.values) \o Chars(", received '")
                     \o v.s \o <<"'">> >>
         [] f.kind = "number" ->
              IF v.t # "number"
              THEN <<Chars("Expected number, received ") \o Chars(v.t)>>
              ELSE IF v.n < f.min
              THEN <<Chars("Number must be greater than or equal to ")
                     \o NumStr(f.min)>>
              ELSE IF v.n > f.max
              THEN <<Chars("Number must be less than or equal to ")
                     \o NumStr(f.max)>>
              ELSE <<>>

RECURSIVE ZodObjectIssues(_, _, _)
\* the issues of the fields schema[i..], in the schema's order
ZodObjectIssues(schema, args, i) ==
  IF i > Len(schema) THEN <<>>
  ELSE LET f == schema[i]
           ms == ZodFieldIssues(f, args[f.name])
       IN [k \in 1..Len(ms) |-> [path |-> Chars(f.name), message |-> ms[k]]]
          \o ZodObjectIssues(schema, args, i + 1)

\* a fail-fast validator: parsing stops at the first issue
ZodIssuesFirstOnly(schema, hasArgs, args) ==
  IF ~hasArgs THEN <<[path |-> <<>>, message |-> Chars("Required")]>>
  ELSE LET all == ZodObjectIssues(schema, args, 1)
       IN IF all = <<>> THEN <<>> ELSE <<all[1]>>

\* error.errors of schema.parse(args): every issue, not only the first
ZodIssues(schema, hasArgs, args) ==
  IF ~hasArgs THEN <<[path |-> <<>>, message |-> Chars("Required")]>>
  ELSE ZodObjectIssues(schema, args, 1)

\* the value schema.parse(args) returns: the schema's keys, others stripped
ZodOutput(schema, args) ==
  [f \in FieldNames |->
     IF \E i \in 1..Len(schema) : schema[i].name = f THEN args[f] ELSE Undef]

NoParams == [f \in FieldNames |-> Undef]

\* the catch clause: one message naming every issue's path and reason
InvalidArgumentsMessage(issues) ==
  Chars("Invalid arguments: ")
  \o Join([k \in 1..Len(issues) |->
             issues[k].path \o Chars(": ") \o issues[k].message],
          Chars(", "))

-----------------------------------------------------------------------------
(* The tool registry returned by list-tools *)

ToolNames == {"get-lights", "control-light", "get-rooms", "control-room",
              "get-scenes", "activate-scene"}

ReadTools == {"get-lights", "get-rooms", "get-scenes"}

WriteTools == {"control-light", "control-room", "activate-scene"}

\* inputSchema.properties of each tool; optional = not listed in `required`
inputSchema(tool) ==
  CASE tool = "get-lights" ->
         << StringField("lightId", TRUE), StringField("room", TRUE) >>
    [] tool = "control-light" ->
         << StringField("target", FALSE),
            EnumField("action", <<"on", "off">>, FALSE),
            NumberField("brightness", 0, 100, TRUE),
            StringField("color", TRUE),
            NumberField("temperature", 153, 500, TRUE) >>
    [] tool = "get-rooms" ->
         << StringField("roomId", TRUE) >>
    [] tool = "control-room" ->
         << StringField("target", FALSE),
            EnumField("action", <<"on", "off">>, FALSE),
            NumberField("brightness", 0, 100, TRUE),
            StringField("color", TRUE),
            NumberField("temperature", 153, 500, TRUE) >>
    [] tool = "get-scenes" ->
         << StringField("room", TRUE) >>
    [] tool = "activate-scene" ->
         << StringField("name", FALSE),
            StringField("room", TRUE),
            EnumField("mode", <<"active", "dynamic", "static">>, TRUE) >>

ToolList ==
  << [name |-> "get-lights", inputSchema |-> inputSchema("get-lights")],
     [name |-> "control-light", inputSchema |-> inputSchema("control-light")],
     [name |-> "get-rooms", inputSchema |-> inputSchema("get-rooms")],
     [name |-> "control-room", inputSchema |-> inputSchema("control-room")],
     [name |-> "get-scenes", inputSchema |-> inputSchema("get-scenes")],
     [name |-> "activate-scene", inputSchema |-> inputSchema("activate-scene")] >>

-----------------------------------------------------------------------------
(* Command building *)

\* os.homedir() of the user running the server
HomeDir == Chars("/home/hue")

getConfigPath == HomeDir \o Chars("/.openhue")

buildDockerCommand(cmd) ==
  Chars("docker run -v \"") \o getConfigPath
  \o Chars(":/.openhue\" --rm openhue/cli ") \o cmd

\* `"${v}"` preceded by a space: the value between two double quotes
Quoted(v) == Chars(" \"") \o ToStr(v) \o Chars("\"")

\* args?.field of the raw request arguments
RawArg(r, f) == IF r.hasArgs THEN r.args[f] ELSE Undef

GetLightsCommand(r) ==
  Chars("get light")
  \o (IF Truthy(RawArg(r, "lightId")) THEN Quoted(RawArg(r, "lightId"))
      ELSE <<>>)
  \o (IF Truthy(RawArg(r, "room"))
      THEN Chars(" --room") \o Quoted(RawArg(r, "room")) ELSE <<>>)
  \o Chars(" --json")

GetRoomsCommand(r) ==
  Chars("get room")
  \o (IF Truthy(RawArg(r, "roomId")) THEN Quoted(RawArg(r, "roomId"))
      ELSE <<>>)
  \o Chars(" --json")

GetScenesCommand(r) ==
  Chars("get scene")
  \o (IF Truthy(RawArg(r, "room"))
      THEN Chars(" --room") \o Quoted(RawArg(r, "room")) ELSE <<>>)
  \o Chars(" --json")

\* the flags control-light and control-room append after --<action>
BrightnessFlag(p) ==
  IF p["brightness"].t # "undefined"
  THEN Chars(" --brightness ") \o ToStr(p["brightness"]) ELSE <<>>

ColorFlag(p) ==
  IF Truthy(p["color"]) THEN Chars(" --color ") \o ToStr(p["color"]) ELSE <<>>

TemperatureFlag(p) ==
  IF Truthy(p["temperature"])
  THEN Chars(" --temperature ") \o ToStr(p["temperature"]) ELSE <<>>

ControlLightCommand(p) ==
  Chars("set light") \o Quoted(p["target"]) \o Chars(" --")
  \o ToStr(p["action"])
  \o BrightnessFlag(p) \o ColorFlag(p) \o TemperatureFlag(p)

ControlRoomCommand(p) ==
  Chars("set room") \o Quoted(p["target"]) \o Chars(" --")
  \o ToStr(p["action"])
  \o BrightnessFlag(p) \o ColorFlag(p) \o TemperatureFlag(p)

ActivateSceneCommand(p) ==
  Chars("set scene") \o Quoted(p["name"])
  \o (IF Truthy(p["room"]) THEN Chars(" --room") \o Quoted(p["room"])
      ELSE <<>>)
  \o (IF Truthy(p["mode"]) THEN Chars(" --action ") \o ToStr(p["mode"])
      ELSE <<>>)

\* the subcommand the handler passes to executeHueCommand
BuildCommand(tool, r, p) ==
  CASE tool = "get-lights" -> GetLightsCommand(r)
    [] tool = "control-light" -> ControlLightCommand(p)
    [] tool = "get-rooms" -> GetRoomsCommand(r)
    [] tool = "control-room" -> ControlRoomCommand(p)
    [] tool = "get-scenes" -> GetScenesCommand(r)
    [] tool = "activate-scene" -> ActivateSceneCommand(p)

------------------------------------------------------------------------\* F(v), with v evaluated once however often F uses it
With(v, F(_)) == CHOOSE y \in {F(x) : x \in {v}} : TRUE

-----
(* The shell that exec hands the command line to (sh -c): how it splits the *)
(* line into the arguments of one command                                   *)

\* characters that start an expansion when they follow an unescaped $: the
\* first character of a name, a positional or special parameter, { and (
ShellExpandStart ==
  {"a", "b", "c", "d", "e", "f", "g", "h", "i", "j", "k", "l", "m", "n", "o",
   "p", "q", "r", "s", "t", "u", "v", "w", "x", "y", "z",
   "A", "B", "C", "D", "E", "F", "G", "H", "I", "J", "K", "L", "M", "N", "O",
   "P", "Q", "R", "S", "T", "U", "V", "W", "X", "Y", "Z", "_",
   "0", "1", "2", "3", "4", "5", "6", "7", "8", "9",
   "@", "*", "#", "?", "-", "$", "!", "{", "("}

\* the special parameters
ShellSpecial == {"@", "*", "#", "?", "-", "$", "!"}

\* characters that end or join commands, or redirect, when unquoted
ShellOperators == {";", "&", "|", "<", ">", "(", ")", "\n"}

\* characters that separate words when unquoted
ShellBlanks == {" ", "\t"}

\* unquoted characters that make a word a pattern for pathname expansion
\* (and [ when the word closes the bracket, see ShellBracket)
ShellGlob == {"*", "?"}

\* the grave accent, which opens and closes a command substitution of the
\* old style (in a TLA+ string it must be followed by an apostrophe)
Backquote == Chars("`'")[1]

\* characters a backslash escapes inside double quotes
ShellDqEscapable == {"$", "\"", "\\", "\n", Backquote}

\* words that begin or continue a compound command where a command begins
ShellReserved ==
  {Chars(w) : w \in {"!", "{", "}", "case", "do", "done", "elif", "else",
                     "esac", "fi", "for", "if", "in", "then", "until",
                     "while"}}

\* A frame of the reader.  m: n (the line), p (the commands of a $( )
\* substitution), g (the text between the grave accents of a substitution
\* of the old style), d (inside double quotes), s (inside single quotes),
\* c (inside a comment).  ps, for n and p, is where the parser stands:
\* start (a command may begin), cmd (inside a command), redir (after a
\* redirection operator, a word must follow), cont (after | && ||, a
\* command must follow).
ShellFrame(m) == [m |-> m, ps |-> "start"]

\* The reader's state.  stack: the open frames, the innermost last; esc: the
\* character follows an escaping backslash; inw: a word has begun; skip: the
\* character ends what the one before it began (an operator of two
\* characters, a special parameter) and has this class; sub: the character
\* is the ( of $( ; kwok, kw: the word began where a command begins and is, so far,
\* the unquoted text kw; ion: the word is, so far, one unquoted digit (the
\* file descriptor of a redirection when < or > follows), psw: where the
\* parser stood before the word; line: the line number; bg: a command of
\* the lines not yet executed runs in the background; linecmds: the commands begun
\* on the lines read and not yet executed, execd: the commands of the lines
\* executed (both counted up to 2); err, errline: the first syntax error and
\* its line; exact: no construct was met that this reader does not parse
\* (${ }, $(( )), ( ), the commands between two grave accents,
\* here-documents, <& and >&, compound commands) and
\* nothing but the first command has been executed.
ShellStart ==
  [stack |-> <<ShellFrame("n")>>, esc |-> FALSE, inw |-> FALSE,
   skip |-> "", sub |-> FALSE, kwok |-> FALSE, kw |-> <<>>, ion |-> FALSE,
   psw |-> "start", line |-> 1, bg |-> FALSE, linecmds |-> 0, execd |-> 0, err |-> <<>>, errline |-> 0, exact |-> TRUE]

ShellTop(st) == st.stack[Len(st.stack)]

ShellSetPs(st, ps) == [st EXCEPT !.stack[Len(st.stack)].ps = ps]

ShellPush(st, m) == [st EXCEPT !.stack = Append(@, ShellFrame(m))]

ShellPop(st) == [st EXCEPT !.stack = SubSeq(@, 1, Len(@) - 1)]

\* the first syntax error ends the reading: later ones are not recorded
ShellErr(st, msg) ==
  IF st.err = <<>> THEN [st EXCEPT !.err = msg, !.errline = st.line] ELSE st

ShellInexact(st) == IF st.err = <<>> THEN [st EXCEPT !.exact = FALSE] ELSE st

ShellUnexpected(t) == Chars("\"") \o Chars(t) \o Chars("\" unexpected")

\* the parser met t where only the ) that ends a substitution could follow
ShellExpecting(t) == ShellUnexpected(t) \o Chars(" (expecting \")\")")

\* a command begins in the frame on top
ShellBegin(st) ==
  IF Len(st.stack) = 1 /\ ShellTop(st).ps \in {"start", "cont"}
     /\ st.linecmds < 2
  THEN [st EXCEPT !.linecmds = @ + 1]
  ELSE st

\* c is a character of a word of the command frame on top; bare: unquoted
ShellInWord(st, c, bare) ==
  LET kwok == bare /\ (IF st.inw THEN st.kwok
                       ELSE ShellTop(st).ps \in {"start", "cont"})
  IN [ShellSetPs(ShellBegin(st), "cmd") EXCEPT
        !.inw = TRUE,
        !.kwok = kwok,
        !.kw = IF ~kwok THEN <<>>
               ELSE IF st.inw THEN Append(st.kw, c) ELSE <<c>>,
        !.ion = ~st.inw /\ bare /\ c \in {Digit[d] : d \in 1..10},
        !.psw = IF st.inw THEN @ ELSE ShellTop(st).ps]

\* the word, if any, ends
ShellEndWord(st) ==
  [(IF st.inw /\ st.kwok /\ st.kw \in ShellReserved
    THEN ShellInexact(st) ELSE st)
   EXCEPT !.inw = FALSE, !.kwok = FALSE, !.kw = <<>>, !.ion = FALSE]

\* the end of a line of the command frame on top: a redirection lacks its
\* word, or the list goes on (after | && ||), or the list is complete, and
\* the shell executes the complete list of the line before it reads on
ShellNewline(st) ==
  LET ps == ShellTop(st).ps
      n == st.execd + st.linecmds
  IN IF ps = "redir" THEN ShellErr(st, Chars("newline unexpected"))
     ELSE IF ps = "cont" THEN st
     ELSE IF Len(st.stack) = 1 /\ st.err = <<>> /\ st.linecmds > 0
     THEN [(IF n > 1 \/ st.bg THEN ShellInexact(ShellSetPs(st, "start"))
            ELSE ShellSetPs(st, "start"))
           EXCEPT !.execd = IF n > 1 THEN 2 ELSE n, !.linecmds = 0,
                  !.bg = FALSE]
     ELSE ShellSetPs(st, "start")

\* the operator t, read in the command frame on top
ShellToken(st0, t) ==
  LET st == ShellEndWord(st0)
      ps == IF t = "redir" /\ st0.inw /\ st0.ion THEN st0.psw
            ELSE ShellTop(st).ps
  IN IF t \in {";", "&"}
     THEN IF ps = "cmd"
          THEN [ShellSetPs(st, "start") EXCEPT
                  !.bg = @ \/ (t = "&" /\ Len(st.stack) = 1)]
          ELSE ShellErr(st, ShellUnexpected(t))
     ELSE IF t \in {"|", "&&", "||"}
     THEN IF ps = "cmd" THEN ShellSetPs(st, "cont")
          ELSE ShellErr(st, ShellUnexpected(t))
     ELSE IF t = ";;"
     THEN \* ;; ends a list: where a list may end, inside a substitution,
          \* the parser then wants the ) ; elsewhere it wants a command
          \* or a word
          IF ShellTop(st).m = "p" /\ ps \in {"start", "cmd"}
          THEN ShellErr(st, ShellExpecting(t))
          ELSE ShellErr(st, ShellUnexpected(t))
     ELSE IF t = "redir"
     THEN IF ps = "redir" THEN ShellErr(st, Chars("redirection unexpected"))
          ELSE ShellSetPs(ShellBegin(st), "redir")
     ELSE IF t = "newline" THEN ShellNewline(st)
     ELSE \* ")" ends the commands of a substitution, the word around it goes on
          IF Len(st.stack) = 1 \/ ps \in {"redir", "cont"}
          THEN ShellErr(st, ShellUnexpected(t))
          ELSE [ShellPop(st) EXCEPT !.inw = TRUE]

\* $ read in state st: it starts a substitution, an expansion (a special
\* parameter is the one character after it), or is itself
ShellDollar(st, nxt, plain) ==
  IF nxt = "(" THEN [st |-> [st EXCEPT !.sub = TRUE], class |-> "exp"]
  ELSE IF nxt \in {"{", "\\"} THEN [st |-> ShellInexact(st), class |-> "exp"]
  ELSE IF nxt \in ShellSpecial
  THEN [st |-> [st EXCEPT !.skip = "exp"], class |-> "exp"]
  ELSE IF nxt \in ShellExpandStart THEN [st |-> st, class |-> "exp"]
  ELSE [st |-> st, class |-> plain]

\* c, unescaped, in a command frame (n or p)
ShellCommandStep(st, c, nxt) ==
  IF c = "\""
  THEN [st |-> ShellPush(ShellInWord(st, c, FALSE), "d"), class |-> "drop"]
  ELSE IF c = "'"
  THEN [st |-> ShellPush(ShellInWord(st, c, FALSE), "s"), class |-> "drop"]
  ELSE IF c = "\\" /\ nxt = "\n"
  THEN [st |-> [st EXCEPT !.esc = TRUE], class |-> "cont"]
  ELSE IF c = "\\" /\ nxt # ""
  THEN [st |-> [st EXCEPT !.esc = TRUE], class |-> "drop"]
  ELSE IF c \in ShellBlanks
  THEN [st |-> ShellEndWord(st), class |-> "blank"]
  ELSE IF c = "\n"
  THEN [st |-> ShellToken(st, "newline"), class |-> "op"]
  ELSE IF c \in {";", "&", "|"}
  THEN LET two == nxt = c
           t == IF ~two THEN c
                ELSE IF c = ";" THEN ";;" ELSE IF c = "&" THEN "&&" ELSE "||"
           s == IF nxt = "\\" THEN ShellInexact(st) ELSE st
       IN [st |-> [ShellToken(s, t) EXCEPT !.skip = IF two THEN "op" ELSE ""],
           class |-> "op"]
  ELSE IF c \in {"<", ">"}
  THEN LET two == nxt \in (IF c = "<" THEN {"<", "&", ">"}
                           ELSE {">", "&", "|"})
           s == ShellToken(IF nxt = "\\" THEN ShellInexact(st) ELSE st,
                           "redir")
       IN [st |-> [(IF nxt \in {"<", "&"} /\ two THEN ShellInexact(s) ELSE s)
                   EXCEPT !.skip = IF two THEN "op" ELSE ""],
           class |-> "op"]
  ELSE IF c = "("
  THEN [st |-> ShellInexact(ShellEndWord(st)), class |-> "op"]
  ELSE IF c = ")"
  THEN [st |-> ShellToken(st, ")"), class |-> "op"]
  ELSE IF c = "#" /\ ~st.inw
  THEN [st |-> ShellPush(st, "c"), class |-> "comment"]
  ELSE IF c = "$"
  THEN ShellDollar(ShellInWord(st, c, FALSE), nxt, "bare")
  ELSE IF c = Backquote
  THEN [st |-> ShellPush(ShellInWord(st, c, FALSE), "g"), class |-> "exp"]
  ELSE IF c \in ShellGlob
  THEN [st |-> ShellInWord(st, c, FALSE), class |-> "exp"]
  ELSE IF c = "~" /\ ~st.inw
  THEN [st |-> ShellInWord(st, c, FALSE), class |-> "tilde"]
  ELSE [st |-> ShellInWord(st, c, TRUE), class |-> "bare"]

\* One character c of the line, nxt being the character after it ("" at the
\* end), read in state st.
\* class of c: blank (separates words), op (operator), bare (an unquoted
\* character of a word), lit (a quoted or escaped character of a word),
\* drop (removed: a quote, an escaping backslash), cont (removed: a
\* backslash and the end of line it continues over), exp (starts an
\* expansion or a pattern, or lies inside a substitution), tilde (an
\* unquoted ~ that begins a word, see ShellTilde), comment (from an
\* unquoted # at the start of a word to the end of the line).
ShellStep(st0, c, nxt) ==
  LET st == [st0 EXCEPT !.line = IF c = "\n" THEN @ + 1 ELSE @]
      m == ShellTop(st).m
      inside == \E k \in 1..Len(st.stack) : st.stack[k].m \in {"p", "g"}
      r ==
        IF st.skip # "" THEN [st |-> [st EXCEPT !.skip = ""], class |-> st.skip]
        ELSE IF st.sub
        THEN [st |-> [ShellPush(IF nxt = "(" THEN ShellInexact(st) ELSE st,
                                "p")
                      EXCEPT !.sub = FALSE, !.inw = FALSE, !.kwok = FALSE,
                             !.kw = <<>>],
              class |-> "exp"]
        ELSE IF st.esc
        THEN IF c = "\n"
             THEN [st |-> [st EXCEPT !.esc = FALSE], class |-> "cont"]
             ELSE IF m \in {"d", "g"}
             THEN [st |-> [st EXCEPT !.esc = FALSE], class |-> "lit"]
             ELSE [st |-> [ShellInWord(st, c, FALSE) EXCEPT !.esc = FALSE],
                   class |-> "lit"]
        ELSE IF m = "c"
        THEN IF c = "\n"
             THEN [st |-> ShellToken(ShellPop(st), "newline"), class |-> "op"]
             ELSE [st |-> st, class |-> "comment"]
        ELSE IF m = "s"
        THEN IF c = "'" THEN [st |-> ShellPop(st), class |-> "drop"]
             ELSE [st |-> st, class |-> "lit"]
        ELSE IF m = "g"
        THEN \* the text runs to the next unescaped grave accent, whatever
             \* quotes it holds; the shell then parses it as commands, which
             \* this reader does not
             IF c = Backquote
             THEN [st |-> ShellInexact(ShellPop(st)), class |-> "exp"]
             ELSE IF c = "\\" /\ nxt # ""
             THEN [st |-> [st EXCEPT !.esc = TRUE], class |-> "exp"]
             ELSE [st |-> st, class |-> "exp"]
        ELSE IF m = "d"
        THEN IF c = "\"" THEN [st |-> ShellPop(st), class |-> "drop"]
             ELSE IF c = "\\" /\ nxt = "\n"
             THEN [st |-> [st EXCEPT !.esc = TRUE], class |-> "cont"]
             ELSE IF c = "\\" /\ nxt \in ShellDqEscapable
             THEN [st |-> [st EXCEPT !.esc = TRUE], class |-> "drop"]
             ELSE IF c = "$" THEN ShellDollar(st, nxt, "lit")
             ELSE IF c = Backquote
             THEN [st |-> ShellPush(st, "g"), class |-> "exp"]
             ELSE [st |-> st, class |-> "lit"]
        ELSE ShellCommandStep(st, c, nxt)
  IN With(r, LAMBDA x : [st |-> x.st,
                          class |-> IF inside THEN "exp" ELSE x.class])

\* the end of the line: an open quote, an open substitution, a redirection
\* without its word or a list without its last command is a syntax error
ShellFinish(st0) ==
  LET st == IF ShellTop(st0).m = "c" THEN ShellPop(st0) ELSE st0
      top == ShellTop(st)
  IN IF top.m \in {"s", "d"}
     THEN ShellErr(st, Chars("Unterminated quoted string"))
     ELSE IF top.m = "g"
     THEN ShellErr(st, Chars("EOF in backquote substitution"))
     ELSE IF top.ps \in {"redir", "cont"}
     THEN ShellErr(ShellEndWord(st), Chars("end of file unexpected"))
     ELSE IF top.m = "p"
     THEN ShellErr(ShellEndWord(st),
                   Chars("end of file unexpected (expecting \")\")"))
     ELSE ShellEndWord(st)

RECURSIVE ShellScan(_, _, _, _)
\* the classes of s[lo..hi] read from state st, and the state after them
ShellScan(s, lo, hi, st) ==
  IF lo > hi THEN [cls |-> <<>>, st |-> st]
  ELSE IF lo = hi
  THEN With(ShellStep(st, s[lo], IF lo < Len(s) THEN s[lo + 1] ELSE ""),
            LAMBDA r : [cls |-> <<r.class>>, st |-> r.st])
  ELSE LET mid == (lo + hi) \div 2
       IN With(ShellScan(s, lo, mid, st),
               LAMBDA l : With(ShellScan(s, mid + 1, hi, l.st),
                               LAMBDA r : [cls |-> l.cls \o r.cls,
                                           st |-> r.st]))

\* What the shell makes of the line.  error, errline: the syntax error it
\* reports (<<>> when it reports none) and its line number; exact: the
\* reader parsed all it met; ran: the shell executed the first line before
\* it read the one with the error.
ShellParse(line) ==
  With(line,
       LAMBDA s : With(ShellFinish(ShellScan(s, 1, Len(s), ShellStart).st),
                       LAMBDA fin : [error |-> fin.err,
                                     errline |-> fin.errline,
                                     exact |-> fin.exact,
                                     ran |-> fin.execd > 0]))

\* the positions that separate words: the unquoted blanks and operators,
\* and the comments
ShellBreaks(cls) ==
  {i \in 1..Len(cls) : cls[i] \in {"blank", "op", "comment"}}

\* the words: the maximal runs of positions between two breaks that hold
\* more than continued line ends
ShellRuns(cls) ==
  LET ends == {0, Len(cls) + 1} \cup ShellBreaks(cls)
  IN {r \in ends \X ends :
        /\ r[1] + 1 < r[2]
        /\ \A k \in (r[1] + 1)..(r[2] - 1) : k \notin ends
        /\ \E k \in (r[1] + 1)..(r[2] - 1) : cls[k] # "cont"}

Kept(c) == c # ""

\* the [ at position i of the word that ends at position hi opens a bracket
\* expression, which makes the word a pattern: after the first character
\* that follows it (the second when the first is !) an unquoted ] comes
\* before any /
ShellBracket(line, cls, i, hi) ==
  LET all == {j \in (i + 1)..hi : cls[j] \notin {"drop", "cont"}}
      Least(S) == CHOOSE j \in S : \A k \in S : j <= k
      neg == all # {} /\ cls[Least(all)] = "bare" /\ line[Least(all)] = "!"
      members == IF neg THEN all \ {Least(all)} ELSE all
  IN \E j \in members :
       /\ j > Least(members)
       /\ cls[j] = "bare" /\ line[j] = "]"
       /\ \A k \in members : k < j => line[k] # "/"

\* the ~ at position i, which begins the word that ends at position hi, is a
\* tilde-prefix, which the shell replaces by a home directory: no character
\* from it to the first unquoted / of the word (or to the end of the word)
\* is quoted
ShellTilde(line, cls, i, hi) ==
  LET slashes == {j \in (i + 1)..hi : cls[j] = "bare" /\ line[j] = "/"}
      stop == IF slashes = {} THEN hi + 1
              ELSE CHOOSE j \in slashes : \A k \in slashes : j <= k
  IN \A j \in (i + 1)..(stop - 1) : cls[j] \notin {"drop", "lit"}

\* argv: the words of the line after quote removal.
\* ok: the line is one simple command whose words are taken literally
\* whatever the environment (no syntax error, no operator, no comment, no
\* expansion or pattern).  When ok, argv is what the shell hands to the
\* command; otherwise argv holds the words before expansion, across all
\* commands of the line, and what runs depends on the environment (the
\* values of parameters, the files of the directory).
ShellWords(line) ==
  LET parse == ShellParse(line)
      cls == ShellScan(line, 1, Len(line), ShellStart).cls
      breaks == ShellBreaks(cls)
      runs == ShellRuns(cls)
      nth(k) == CHOOSE r \in runs :
                  Cardinality({q \in runs : q[1] < r[1]}) = k - 1
      text == [i \in 1..Len(line) |->
                 IF cls[i] \in {"drop", "cont"} THEN "" ELSE line[i]]
      end(i) == CHOOSE h \in i..Len(line) :
                  /\ \A k \in i..h : k \notin breaks
                  /\ h = Len(line) \/ h + 1 \in breaks
  IN [argv |-> [k \in 1..Cardinality(runs) |->
                  SelectSeq(SubSeq(text, nth(k)[1] + 1, nth(k)[2] - 1), Kept)],
      error |-> parse.error,
      errline |-> parse.errline,
      exact |-> parse.exact,
      ran |-> parse.ran,
      ok |-> /\ parse.error = <<>>
             /\ parse.exact
             /\ \A i \in 1..Len(line) :
                  /\ cls[i] \notin {"op", "exp", "comment"}
                  /\ ~(/\ cls[i] = "bare" /\ line[i] = "["
                       /\ ShellBracket(line, cls, i, end(i)))
                  /\ ~(cls[i] = "tilde" /\ ShellTilde(line, cls, i, end(i)))]

-----------------------------------------------------------------------------
(* Execution and responses *)

\* exec's default maxBuffer, in bytes: index.ts passes exec no options
MaxBuffer == 1048576

\* What the subprocess did.  kind: exit (the shell ran and ended with status
\* code) or spawn (the shell could not be started; error is the message).
\* stdout, stderr: the text exec captured; stdoutBytes, stderrBytes: the
\* bytes the subprocess wrote to each stream; first: the stream whose data
\* arrived first (it matters only when both streams go over maxBuffer).
NoOutcome ==
  [kind |-> "none", code |-> 0, stdout |-> <<>>, stderr |-> <<>>,
   stdoutBytes |-> 0, stderrBytes |-> 0, first |-> "stdout", error |-> <<>>]

\* the stream, if any, for which exec raises its maxBuffer error: the first
\* one whose captured length would go over maxBuffer ("" when neither does)
MaxBufferExceeded(out) ==
  IF out.stdoutBytes > MaxBuffer
     /\ (out.stderrBytes <= MaxBuffer \/ out.first = "stdout")
  THEN "stdout"
  ELSE IF out.stderrBytes > MaxBuffer THEN "stderr"
  ELSE ""

\* executeHueCommand: what it returns or throws for a subprocess outcome.
\* exec rejects when the shell cannot be spawned, when a stream goes over
\* maxBuffer (message: "<stream> maxBuffer length exceeded"; the subprocess
\* is killed) and when the exit status is not zero (message:
\* "Command failed: <command line>\n<stderr>"); executeHueCommand rethrows
\* what exec rejects with, and throws stderr when exec resolved with some.
executeHueCommand(cmd, out) ==
  IF out.kind = "spawn"
  THEN [threw |-> TRUE, text |-> out.error]
  ELSE IF MaxBufferExceeded(out) # ""
  THEN [threw |-> TRUE,
        text |-> Chars(MaxBufferExceeded(out))
                 \o Chars(" maxBuffer length exceeded")]
  ELSE IF out.code # 0
  THEN [threw |-> TRUE,
        text |-> Chars("Command failed: ") \o buildDockerCommand(cmd)
                 \o Chars("\n") \o out.stderr]
  ELSE IF out.stderr # <<>>
  THEN [threw |-> TRUE, text |-> out.stderr]
  ELSE [threw |-> FALSE, text |-> out.stdout]

\* a handler that returns the captured output for every tool
ResultTextRaw(tool, p, stdout) == stdout

\* content[0].text of the handler's return value
ResultText(tool, p, stdout) ==
  CASE tool \in ReadTools -> stdout
    [] tool = "control-light" ->
         Chars("Successfully set light \"") \o ToStr(p["target"])
         \o Chars("\" to ") \o ToStr(p["action"])
    [] tool = "control-room" ->
         Chars("Successfully set room \"") \o ToStr(p["target"])
         \o Chars("\" to ") \o ToStr(p["action"])
    [] tool = "activate-scene" ->
         Chars("Successfully activated scene \"") \o ToStr(p["name"])
         \o Chars("\"")

UnknownToolMessage(name) == Chars("Unknown tool: ") \o Chars(name)

NoResponse == [kind |-> "none", text |-> <<>>, tools |-> <<>>]
ResultResponse(text) == [kind |-> "result", text |-> text, tools |-> <<>>]
\* a handler's throw is answered as a JSON-RPC error carrying error.message
ErrorResponse(text) == [kind |-> "error", text |-> text, tools |-> <<>>]
ToolsResponse == [kind |-> "tools", text |-> <<>>, tools |-> ToolList]

\* a switch without its default case: an unknown name runs the last read case
SwitchCaseNoDefault(name) == IF name \in ToolNames THEN name ELSE "get-scenes"

\* the case of `switch (name)` the handler enters
SwitchCase(name) == IF name \in ToolNames THEN name ELSE "default"

SchemaOf(tool) ==
  CASE tool = "control-light" -> LightActionSchema
    [] tool = "control-room" -> RoomActionSchema
    [] tool = "activate-scene" -> SceneActionSchema

-----------------------------------------------------------------------------
(* The requests and subprocess outcomes the model draws from *)

MaxStrLen == 1

Alphabet == {"a", " ", "\""}

Strings == SeqsUpTo(Alphabet, MaxStrLen) \cup {Chars("$a"), Chars("a;b")}

StringValues == {Str(s) : s \in Strings}

\* what a string-typed field may carry: nothing, a string, or another type
StringInputs == {Undef, Num(5)} \cup StringValues

IdInputs == {Undef, Num(0), Num(5), Obj} \cup StringValues

ActionInputs == {Undef, Str(Chars("on")), Str(Chars("off")), Str(Chars("a")),
                 Num(1)}

BrightnessInputs == {Undef, Num(-1), Num(0), Num(100), Num(101),
                     Str(Chars("a"))}

TemperatureInputs == {Undef, Num(152), Num(153), Num(500), Num(501),
                      Str(Chars("a"))}

ModeInputs == {Undef, Str(Chars("active")), Str(Chars("dynamic")),
               Str(Chars("static")), Str(Chars("a")), Num(1)}

ControlArgs ==
  {[NoParams EXCEPT !["target"] = t, !["action"] = a, !["brightness"] = b,
                    !["color"] = c, !["temperature"] = m] :
     t \in StringInputs, a \in ActionInputs, b \in BrightnessInputs,
     c \in StringInputs, m \in TemperatureInputs}

SceneArgs ==
  {[NoParams EXCEPT !["name"] = n, !["room"] = r, !["mode"] = m] :
     n \in StringInputs, r \in StringInputs, m \in ModeInputs}

GetLightsArgs ==
  {[NoParams EXCEPT !["lightId"] = l, !["room"] = r] :
     l \in IdInputs, r \in IdInputs}

GetRoomsArgs == {[NoParams EXCEPT !["roomId"] = l] : l \in IdInputs}

\* texts the shell reads as a substitution with an open quote, as a
\* substitution with nested quotes, and as two lines of which the second has
\* an open quote
ShellTexts ==
  {Chars("$("), Chars("$(echo '\"')"), Chars("\"\n'"), <<Backquote>>}

GetScenesArgs ==
  {[NoParams EXCEPT !["room"] = r] :
     r \in IdInputs \cup {Str(s) : s \in ShellTexts}}

UnknownNames == {"get-light", "set-scene", ""}

ArgsFor(name) ==
  CASE name \in {"control-light", "control-room"} -> ControlArgs
    [] name = "activate-scene" -> SceneArgs
    [] name = "get-lights" -> GetLightsArgs
    [] name = "get-rooms" -> GetRoomsArgs
    [] name = "get-scenes" -> GetScenesArgs
    [] OTHER -> SceneArgs \cup GetLightsArgs

\* request.params of a call-tool request; `arguments` may be omitted
RequestsNamed(n) ==
  {[name |-> n, hasArgs |-> FALSE, args |-> NoParams]}
  \cup {[name |-> n, hasArgs |-> TRUE, args |-> a] : a \in ArgsFor(n)}

RequestNames == ToolNames \cup UnknownNames

StdoutTexts == {<<>>, Chars("[]")}

StderrTexts == {<<>>, Chars("bridge unreachable")}

\* messages of the errors exec rejects with when the shell cannot be started
SpawnErrors == {Chars("spawn /bin/sh ENOENT"), Chars("spawn E2BIG")}

Exited(c, o, e) ==
  [kind |-> "exit", code |-> c, stdout |-> o, stderr |-> e,
   stdoutBytes |-> Len(o), stderrBytes |-> Len(e), first |-> "stdout",
   error |-> <<>>]

\* the shell ran a well-formed line: any status, any output within maxBuffer
ExitOutcomes ==
  {Exited(c, o, e) : c \in {0, 1}, o \in StdoutTexts, e \in StderrTexts}

\* a stream went over maxBuffer and exec killed the subprocess (its status
\* is not zero); stdout and stderr stand for what was captured until then
OverflowOutcomes ==
  LET o == Chars("[]")
      e == Chars("bridge unreachable")
      Over(ob, eb, f) ==
        [Exited(1, o, e) EXCEPT !.stdoutBytes = ob, !.stderrBytes = eb,
                                !.first = f]
  IN {Over(MaxBuffer + 1, Len(e), "stdout"),
      Over(Len(o), MaxBuffer + 1, "stdout"),
      Over(MaxBuffer + 1, MaxBuffer + 1, "stdout"),
      Over(MaxBuffer + 1, MaxBuffer + 1, "stderr")}

SpawnOutcomes ==
  {[NoOutcome EXCEPT !.kind = "spawn", !.error = m] : m \in SpawnErrors}

Outcomes == ExitOutcomes \cup OverflowOutcomes \cup SpawnOutcomes

\* what /bin/sh writes to standard error for the syntax error of sh
ShellSyntaxError(sh) ==
  Chars("/bin/sh: ") \o NatStr(sh.errline) \o Chars(": Syntax error: ")
  \o sh.error \o Chars("\n")

\* The outcomes of running the command.  A line with a syntax error ends the
\* shell with status 2 and the error on standard error: when the error is
\* on the first line nothing was started, on a later line docker has run
\* and its output precedes the error.  Where the reader is not exact the
\* shell may or may not report an error.
OutcomesOf(cmd) ==
  With(ShellParse(buildDockerCommand(cmd)),
       LAMBDA sh :
         LET msg == ShellSyntaxError(sh)
             failed == IF sh.ran
                       THEN {Exited(2, o, e \o msg) :
                               o \in StdoutTexts, e \in StderrTexts}
                            \cup OverflowOutcomes
                       ELSE {Exited(2, <<>>, msg)}
         IN IF sh.error = <<>> THEN Outcomes
            ELSE IF sh.exact THEN failed \cup SpawnOutcomes
            ELSE Outcomes \cup failed)

-----------------------------------------------------------------------------
(* The server *)

NoRequest == [name |-> "", hasArgs |-> FALSE, args |-> NoParams]

Init ==
  /\ pc = "Idle"
  /\ req = NoRequest
  /\ params = NoParams
  /\ validated = FALSE
  /\ command = <<>>
  /\ launched = 0
  /\ outcome = NoOutcome
  /\ response = NoResponse

\* the list-tools handler
ListTools ==
  /\ pc = "Idle"
  /\ pc' = "Listed"
  /\ response' = ToolsResponse
  /\ UNCHANGED <<req, params, validated, command, launched, outcome>>

\* a call-tool request arrives: { name, arguments: args } = request.params
Receive(r) ==
  /\ pc = "Idle"
  /\ pc' = "Received"
  /\ req' = r
  /\ UNCHANGED <<params, validated, command, launched, outcome, response>>

\* switch (name): an unknown name throws, a write tool parses its arguments,
\* a read tool goes straight to building its command
Dispatch ==
  /\ pc = "Received"
  /\ LET case == SwitchCase(req.name) IN
       \/ /\ case = "default"
          /\ pc' = "Failed"
          /\ response' = ErrorResponse(UnknownToolMessage(req.name))
       \/ /\ case \in WriteTools
          /\ pc' = "Validating"
          /\ UNCHANGED response
       \/ /\ case \in ReadTools
          /\ pc' = "Building"
          /\ UNCHANGED response
  /\ UNCHANGED <<req, params, validated, command, launched, outcome>>

\* Schema.parse(args), and the catch clause for a ZodError
Validate ==
  /\ pc = "Validating"
  /\ LET schema == SchemaOf(SwitchCase(req.name))
         issues == ZodIssues(schema, req.hasArgs, req.args)
     IN \/ /\ issues = <<>>
           /\ params' = ZodOutput(schema, req.args)
           /\ validated' = TRUE
           /\ pc' = "Building"
           /\ UNCHANGED response
        \/ /\ issues # <<>>
           /\ pc' = "Failed"
           /\ response' = ErrorResponse(InvalidArgumentsMessage(issues))
           /\ UNCHANGED <<params, validated>>
  /\ UNCHANGED <<req, command, launched, outcome>>

\* the command is built and handed to exec: the subprocess is launched
Build ==
  /\ pc = "Building"
  /\ command' = BuildCommand(SwitchCase(req.name), req, params)
  /\ launched' = launched + 1
  /\ pc' = "Executing"
  /\ UNCHANGED <<req, params, validated, outcome, response>>

\* the await on exec settles; the handler returns its result or rethrows
Complete(out) ==
  /\ pc = "Executing"
  /\ outcome' = out
  /\ LET r == executeHueCommand(command, out) IN
       \/ /\ r.threw
          /\ pc' = "Failed"
          /\ response' = ErrorResponse(r.text)
       \/ /\ ~r.threw
          /\ pc' = "Succeeded"
          /\ response' = ResultResponse(ResultText(SwitchCase(req.name), params,
                                                  r.text))
  /\ UNCHANGED <<req, params, validated, command, launched>>

Next ==
  \/ ListTools
  \/ (pc = "Idle" /\ \E n \in RequestNames : \E r \in RequestsNamed(n) : Receive(r))
  \/ Dispatch
  \/ Validate
  \/ Build
  \/ (pc = "Executing" /\ \E out \in OutcomesOf(command) : Complete(out))

Spec == Init /\ [][Next]_vars

-----------------------------------------------------------------------------
(* Properties *)

Terminal == pc \in {"Failed", "Succeeded"}

\* the handler has passed the point where it parses a write tool's arguments
PastValidation == pc \in {"Building", "Executing", "Failed", "Succeeded"}

\* C1: a call-tool request whose name is not one of the six registered names
\* ends, whatever its arguments, in the failure "Unknown tool: <name>", and
\* no command is built and no subprocess is launched for it.
C1_UnknownToolFails ==
  (pc \notin {"Idle", "Listed"}
   /\ req.name \notin {"get-lights", "control-light", "get-rooms",
                       "control-room", "get-scenes", "activate-scene"})
  => /\ pc \in {"Received", "Failed"}
     /\ command = <<>>
     /\ launched = 0
     /\ outcome = NoOutcome
     /\ pc = "Failed" =>
          /\ response.kind = "error"
          /\ response.text = Chars("Unknown tool: ") \o Chars(req.name)

C1_Witness ==
  /\ pc = "Failed"
  /\ req.name = "get-light"
  /\ req.hasArgs
  /\ req.args["lightId"] = Str(Chars("a"))
  /\ response.text = Chars("Unknown tool: get-light")

\* the fields of a write tool's schema that the request's arguments violate
ViolatingFields ==
  LET schema == SchemaOf(req.name)
  IN {i \in 1..Len(schema) :
        ZodFieldIssues(schema[i], req.args[schema[i].name]) # <<>>}

\* C2: when the arguments of a write tool violate its schema in one or more
\* fields, the invocation fails with one "Invalid arguments: ..." error that
\* names every violating field with its reason, and no subprocess is
\* launched.  (Omitted arguments are reported once, at the root path.)
C2_AllViolationsReported ==
  (req.name \in WriteTools /\ PastValidation)
  => /\ (req.hasArgs /\ ViolatingFields # {}) =>
          /\ pc = "Failed"
          /\ launched = 0
          /\ outcome = NoOutcome
          /\ response.kind = "error"
          /\ StartsWith(response.text, Chars("Invalid arguments: "))
          /\ \A i \in ViolatingFields :
               LET f == SchemaOf(req.name)[i]
               IN Contains(response.text,
                           Chars(f.name) \o Chars(": ")
                           \o ZodFieldIssues(f, req.args[f.name])[1])
     /\ ~req.hasArgs =>
          /\ pc = "Failed"
          /\ launched = 0
          /\ response = ErrorResponse(Chars("Invalid arguments: : Required"))

C2_Witness ==
  /\ pc = "Failed"
  /\ req.name = "control-light"
  /\ req.hasArgs
  /\ req.args["target"] = Undef
  /\ req.args["action"] = Str(Chars("a"))
  /\ req.args["brightness"] = Num(101)
  /\ req.args["color"] = Undef
  /\ req.args["temperature"] = Num(152)
  /\ launched = 0
  /\ response.text =
       Chars("Invalid arguments: target: Required, ")
       \o Chars("action: Invalid enum value. Expected 'on' | 'off', ")
       \o Chars("received 'a', ")
       \o Chars("brightness: Number must be less than or equal to 100, ")
       \o Chars("temperature: Number must be greater than or equal to 153")

\* C3: whenever the subprocess exits with a status other than zero or writes
\* text to standard error (also when it exits zero and wrote to standard
\* output), the invocation ends Failed with an error response whose message
\* contains the captured standard-error text, never with a result.
C3_ExternalFailureReported ==
  (outcome.kind = "exit" /\ (outcome.code # 0 \/ outcome.stderr # <<>>))
  => /\ pc = "Failed"
     /\ response.kind = "error"
     /\ Contains(response.text, outcome.stderr)

\* the arguments a shell should hand to docker for the request: the fixed
\* prefix, then the subcommand with every supplied value as one argument
ExpectedArgv ==
  LET a == IF req.name \in WriteTools THEN params
           ELSE [f \in FieldNames |-> RawArg(req, f)]
      W(text) == <<Chars(text)>>
      Val(f) == <<ToStr(a[f])>>
      Opt(flag, f) == IF Truthy(a[f]) THEN W(flag) \o Val(f) ELSE <<>>
      Id(f) == IF Truthy(a[f]) THEN Val(f) ELSE <<>>
      Flags == (IF a["brightness"].t # "undefined"
                THEN W("--brightness") \o Val("brightness") ELSE <<>>)
               \o Opt("--color", "color")
               \o Opt("--temperature", "temperature")
  IN << Chars("docker"), Chars("run"), Chars("-v"),
        HomeDir \o Chars("/.openhue:/.openhue"), Chars("--rm"),
        Chars("openhue/cli") >>
     \o CASE req.name = "get-lights" ->
               W("get") \o W("light") \o Id("lightId") \o Opt("--room", "room")
               \o W("--json")
          [] req.name = "get-rooms" ->
               W("get") \o W("room") \o Id("roomId") \o W("--json")
          [] req.name = "get-scenes" ->
               W("get") \o W("scene") \o Opt("--room", "room") \o W("--json")
          [] req.name = "control-light" ->
               W("set") \o W("light") \o Val("target")
               \o <<Chars("--") \o ToStr(a["action"])>> \o Flags
          [] req.name = "control-room" ->
               W("set") \o W("room") \o Val("target")
               \o <<Chars("--") \o ToStr(a["action"])>> \o Flags
          [] req.name = "activate-scene" ->
               W("set") \o W("scene") \o Val("name") \o Opt("--room", "room")
               \o Opt("--action", "mode")

\* every free-form value of the request is a string or absent
FreeFormAreStrings ==
  \A f \in {"lightId", "roomId", "room", "target", "name", "color"} :
    RawArg(req, f).t \in {"undefined", "string"}

\* C4: every target, name, room, lightId, roomId or color value, also one
\* with a space or a shell metacharacter, is quoted in the built command so
\* that a shell splits the command line into exactly the intended arguments,
\* the value being one of them, unchanged.
C4_QuotingRoundTrip ==
  (launched >= 1 /\ req.name \in ToolNames /\ FreeFormAreStrings)
  => LET sh == ShellWords(buildDockerCommand(command))
     IN sh.ok /\ sh.argv = ExpectedArgv

\* the request's arguments satisfy the inputSchema list-tools advertises
ConformsTo(schema, r) ==
  \A i \in 1..Len(schema) :
    LET f == schema[i]
        v == RawArg(r, f.name)
    IN IF v.t = "undefined" THEN f.optional
       ELSE CASE f.kind = "string" -> v.t = "string"
              [] f.kind = "enum" ->
                   /\ v.t = "string"
                   /\ \E k \in 1..Len(f.values) : Chars(f.values[k]) = v.s
              [] f.kind = "number" ->
                   v.t = "number" /\ f.min <= v.n /\ v.n <= f.max

\* C5: for every registered tool, the read tools included, a subprocess is
\* launched only for arguments that satisfy the schema list-tools advertises
\* for the tool: a lightId, roomId or room that is not a string launches
\* nothing.
C5_OnlyValidatedLaunch ==
  launched >= 1
  => /\ req.name \in ToolNames
     /\ ConformsTo(inputSchema(req.name), req)

\* the confirmation message quotes the text v
Names(text, v) == Contains(text, Chars("\"") \o v \o Chars("\""))

\* C6 as stated: a read tool returns the captured standard output unchanged;
\* a write tool returns a confirmation naming the target/name and the
\* action, and for activate-scene called with a mode, that mode.
C6_ResponseShape ==
  pc = "Succeeded"
  => /\ response.kind = "result"
     /\ req.name \in ReadTools => response.text = outcome.stdout
     /\ req.name \in {"control-light", "control-room"} =>
          /\ Names(response.text, req.args["target"].s)
          /\ EndsWith(response.text, Chars(" to ") \o req.args["action"].s)
     /\ req.name = "activate-scene" =>
          /\ Names(response.text, req.args["name"].s)
          /\ req.args["mode"].t = "string" =>
               Contains(response.text, req.args["mode"].s)

\* C6 amended: as C6, except that the confirmation of activate-scene names
\* the scene only: it is the same text with and without a mode.
C6_ResponseShapeAmended ==
  pc = "Succeeded"
  => /\ response.kind = "result"
     /\ req.name \in ReadTools => response.text = outcome.stdout
     /\ req.name \in {"control-light", "control-room"} =>
          /\ Names(response.text, req.args["target"].s)
          /\ EndsWith(response.text, Chars(" to ") \o req.args["action"].s)
     /\ req.name = "activate-scene" =>
          /\ Names(response.text, req.args["name"].s)
          /\ response.text = Chars("Successfully activated scene \"")
                             \o req.args["name"].s \o Chars("\"")

C6_Witness ==
  /\ pc = "Succeeded"
  /\ req.name = "activate-scene"
  /\ req.args["name"] = Str(Chars("a"))
  /\ req.args["mode"] = Str(Chars("dynamic"))
  /\ outcome.stdout = Chars("[]")
  /\ command = Chars("set scene \"a\" --action dynamic")
  /\ response.text = Chars("Successfully activated scene \"a\"")

\* how far an invocation has come
Rank(p) ==
  CASE p = "Idle" -> 0
    [] p = "Received" -> 1
    [] p = "Validating" -> 2
    [] p = "Building" -> 3
    [] p = "Executing" -> 4
    [] OTHER -> 5

\* C7: an invocation launches at most one subprocess, launches it only
\* after validation of its arguments succeeded, and has exactly one response
\* (a payload when Succeeded, an error when Failed) once it is in a terminal
\* state and none before.
C7_Lifecycle ==
  /\ launched <= 1
  /\ launched >= 1 => validated
  /\ Rank(pc) <= 3 => launched = 0
  /\ Rank(pc) <= 4 => response = NoResponse
  /\ pc = "Succeeded" => response.kind = "result" /\ launched = 1
  /\ pc = "Failed" => response.kind = "error"

\* C7, the order of the states: an invocation only moves forward and never
\* leaves a terminal state.
C7_ForwardOnly ==
  [][/\ Rank(pc') > Rank(pc)
     /\ launched' >= launched
     /\ ~Terminal]_vars

IsControl == req.name \in {"control-light", "control-room"}

ControlBase ==
  (IF req.name = "control-light" THEN Chars("set light \"")
   ELSE Chars("set room \""))
  \o req.args["target"].s \o Chars("\" --") \o req.args["action"].s

Supplied(f) == req.args[f].t # "undefined"

\* the number of times a flag occurs in the built command
FlagCount(flag) == CountOcc(Chars(flag), command)

\* C8 as stated: the command of control-light and control-room is the base
\* followed by --brightness, --color, --temperature in this order, each once
\* with the supplied value when its parameter was supplied and not at all
\* when it was omitted.
C8_FlagsAsSupplied ==
  (IsControl /\ launched >= 1)
  => /\ command =
          ControlBase
          \o (IF Supplied("brightness")
              THEN Chars(" --brightness ") \o NumStr(req.args["brightness"].n)
              ELSE <<>>)
          \o (IF Supplied("color")
              THEN Chars(" --color ") \o req.args["color"].s ELSE <<>>)
          \o (IF Supplied("temperature")
              THEN Chars(" --temperature ")
                   \o NumStr(req.args["temperature"].n)
              ELSE <<>>)
     /\ FlagCount(" --brightness ") = (IF Supplied("brightness") THEN 1 ELSE 0)
     /\ FlagCount(" --color ") = (IF Supplied("color") THEN 1 ELSE 0)
     /\ FlagCount(" --temperature ")
          = (IF Supplied("temperature") THEN 1 ELSE 0)

\* the only fields the arguments violate, if any, are those named
OnlyViolates(names) ==
  \A i \in ViolatingFields : SchemaOf(req.name)[i].name \in names

\* C9: for control-light and control-room a supplied temperature below 153
\* or above 500 fails validation with an "Invalid arguments" error naming
\* the temperature field, and nothing is launched; 153 and 500 pass
\* validation and, the other fields being valid, reach execution.
C9_TemperatureRange ==
  (IsControl /\ req.hasArgs /\ PastValidation
   /\ req.args["temperature"].t = "number")
  => LET t == req.args["temperature"].n IN
     /\ (t < 153 \/ t > 500) =>
          /\ pc = "Failed"
          /\ launched = 0
          /\ response.kind = "error"
          /\ StartsWith(response.text, Chars("Invalid arguments: "))
          /\ Contains(response.text, Chars("temperature: Number must be "))
     /\ t \in {153, 500} =>
          /\ ~Contains(response.text, Chars("temperature: "))
          /\ OnlyViolates({"temperature"}) =>
               \/ pc = "Building"
               \/ /\ launched = 1
                  /\ EndsWith(command, Chars(" --temperature ") \o NumStr(t))

C9_Witness ==
  /\ pc = "Succeeded"
  /\ req.name = "control-light"
  /\ req.args["temperature"] = Num(500)
  /\ launched = 1
  /\ command = Chars("set light \"a\" --on --temperature 500")

\* the required identifier of the write tool called
Identifier == IF req.name = "activate-scene" THEN "name" ELSE "target"

\* C10 as stated: a write tool called with the empty string as its target or
\* name fails validation and launches nothing.
C10_EmptyIdentifierRejected ==
  (req.name \in WriteTools /\ req.hasArgs /\ PastValidation
   /\ req.args[Identifier] = Str(<<>>))
  => pc = "Failed" /\ launched = 0

====
